---- MODULE Spec2Model ----
(***************************************************************************)
(* A model of rsi_bot.py: the BTC multi-timeframe RSI watcher.             *)
(*                                                                         *)
(* Time is the wall clock of time.time(), in whole seconds.  RSI values    *)
(* are whole numbers of RSI points.  The external world (exchange answers, *)
(* Telegram's answer, the time a blocking call takes) is nondeterministic. *)
(***************************************************************************)
EXTENDS Integers, Sequences, FiniteSets, TLC

VARIABLES
    pc,          \* position of main(): "start", "loop", "sweep", "sleep", "done", "crashed"
    tfi,         \* index into TIMEFRAMES of the timeframe the sweep is at
    clock,       \* time.time()
    start,       \* main's local `start`
    market,      \* main's locals (exchange.id, symbol); <<>> before the first selection
    state,       \* main's local `state`: timeframe -> record
    cfg,         \* the environment read at import: BOT_TOKEN, CHAT_ID, STARTUP_DM
    last,        \* what the most recent step of the program did (history)
    fetched,     \* timeframe -> the sample most recently fetched for it (history)
    hist,        \* the samples the decision engine was fed, with the record before each (history)
    sel,         \* pick_working_market's frame: position in its loops, last_err, outcome
    trace        \* the calls one pick_working_market run made and how each ended (history)

vars == <<pc, tfi, clock, start, market, state, cfg, last, fetched, hist, sel, trace>>

----------------------------------------------------------------------------
(* Program constants.                                                      *)

SYMBOL_CANDIDATES ==
    << <<"bybit",     <<"BTC/USDT">> >>,
       <<"okx",       <<"BTC/USDT", "BTC-USDT">> >>,
       <<"kraken",    <<"BTC/USDT", "XBT/USDT", "BTC/USD", "XBT/USD">> >>,
       <<"binanceus", <<"BTC/USDT", "BTC/USD">> >>,
       <<"coinbase",  <<"BTC/USD", "BTC/USDT">> >> >>

LOW_THRESH == 20
HIGH_THRESH == 80
COOLDOWN_SECONDS == 300
RUN_SECONDS == 4 * 60
LOOP_SLEEP_SECONDS == 30

\* The model follows the first NumTF entries of the source's list; the
\* entries share no state (state[tf] is read and written for tf alone).
NumTF == 1
TIMEFRAMES == SubSeq(<<"1m", "5m", "15m", "1h", "4h">>, 1, NumTF)

\* The model follows the first NumProviders entries of SYMBOL_CANDIDATES.
NumProviders == 2
Providers == SubSeq(SYMBOL_CANDIDATES, 1, NumProviders)

----------------------------------------------------------------------------
(* Bounds on the environment.                                              *)

\* time.time() when main() starts.
StartEpoch == 1000
\* A blocking network call (a fetch, a selection) takes Fast or Slow seconds.
Fast == 60
Slow == 300
Delays == {Fast, Slow}
\* Candle timestamps an exchange may report: 0 .. MaxTs.
MaxTs == 1
TsVals == 0 .. MaxTs
\* RSI values are 0 .. MaxRsi; the run loop is fed the thresholds and their
\* outer neighbours.
MaxRsi == 100
RsiSamples == {LOW_THRESH - 1, LOW_THRESH, HIGH_THRESH, HIGH_THRESH + 1}
\* The run loop is fed one value of each zone.
RunSamples == {LOW_THRESH - 1, LOW_THRESH, HIGH_THRESH + 1}

----------------------------------------------------------------------------
(* Pure functions.                                                         *)

\* float("nan"): what line 89 returns for an RSI series whose last entry is
\* not a number.  It is no member of 0 .. MaxRsi, and every comparison with
\* it is false.
NaN == 0 - 1

\* classify_zone with the thresholds included in the extreme zones.
classify_zone_Inclusive(rsi) ==
    IF rsi # NaN /\ rsi <= LOW_THRESH THEN "below"
    ELSE IF rsi # NaN /\ rsi >= HIGH_THRESH THEN "above"
    ELSE "normal"

\* Lines 91-94.
classify_zone(rsi) ==
    IF rsi # NaN /\ rsi < LOW_THRESH THEN "below"
    ELSE IF rsi # NaN /\ rsi > HIGH_THRESH THEN "above"
    ELSE "normal"

\* Lines 107-114, with both timers starting at the time of the start.
InitTfState_StartsCooldown ==
    [last_zone |-> "normal", last_ts |-> 0,
     last_alert_low |-> StartEpoch, last_alert_high |-> StartEpoch]

\* Lines 107-114: one timeframe's initial record.
InitTfState ==
    [last_zone |-> "normal", last_ts |-> 0, last_alert_low |-> 0, last_alert_high |-> 0]

\* Line 136.
new_candle(s, ts) == ts # s.last_ts

\* Line 137, with a crossing that ignores the stored zone.
crossed_below_AnyNewCandle(s, zone, ts) ==
    new_candle(s, ts) /\ zone = "below"

\* Line 137, with a crossing that ignores the candle timestamp.
crossed_below_IgnoresCandle(s, zone, ts) ==
    s.last_zone # "below" /\ zone = "below"

\* Line 137, with no crossing ever seen.
crossed_below_Never(s, zone, ts) == FALSE

\* Line 137.
crossed_below(s, zone, ts) ==
    new_candle(s, ts) /\ (s.last_zone # "below" /\ zone = "below")

\* Line 138.
crossed_above(s, zone, ts) ==
    new_candle(s, ts) /\ (s.last_zone # "above" /\ zone = "above")

\* Line 141, with the cooldown never in force.
can_low_NoCooldown(s, now_t) == TRUE

\* Line 141.
can_low(s, now_t) == (now_t - s.last_alert_low) >= COOLDOWN_SECONDS

\* Line 142.
can_high(s, now_t) == (now_t - s.last_alert_high) >= COOLDOWN_SECONDS

\* Lines 144-158, with the second branch missing its zone test.
alert_kind_NoZoneTest(s, zone, ts, now_t) ==
    IF zone = "below" /\ (crossed_below(s, zone, ts) \/ can_low(s, now_t))
    THEN "oversold"
    ELSE IF crossed_above(s, zone, ts) \/ can_high(s, now_t)
    THEN "overbought"
    ELSE "none"

\* Lines 144-158: which alert text is built, "none" when alert_text stays None.
alert_kind(s, zone, ts, now_t) ==
    IF zone = "below" /\ (crossed_below(s, zone, ts) \/ can_low(s, now_t))
    THEN "oversold"
    ELSE IF zone = "above" /\ (crossed_above(s, zone, ts) \/ can_high(s, now_t))
    THEN "overbought"
    ELSE "none"

\* Lines 134-165, with lines 151 and 158 left out: the timers are never set.
Decide_NoTimerUpdate(s, rsi, ts, now_t) ==
    LET zone == classify_zone(rsi)
    IN  [alert |-> alert_kind(s, zone, ts, now_t),
         tf_state |-> [s EXCEPT !.last_zone = zone, !.last_ts = ts]]

\* Lines 134-165, with lines 164-165 run only when an alert was built.
Decide_UpdateOnAlert(s, rsi, ts, now_t) ==
    LET zone == classify_zone(rsi)
        alert == alert_kind(s, zone, ts, now_t)
    IN  [alert |-> alert,
         tf_state |->
            IF alert = "none" THEN s
            ELSE [last_zone |-> zone,
                  last_ts |-> ts,
                  last_alert_low  |-> IF alert = "oversold" THEN now_t
                                      ELSE s.last_alert_low,
                  last_alert_high |-> IF alert = "overbought" THEN now_t
                                      ELSE s.last_alert_high]]

\* Lines 134-165, with lines 164-165 skipped after an alert was sent: the
\* stored zone and candle timestamp stay those of the sample before.
Decide_StaleAfterAlert(s, rsi, ts, now_t) ==
    LET zone == classify_zone(rsi)
        alert == alert_kind(s, zone, ts, now_t)
    IN  [alert |-> alert,
         tf_state |->
            [last_zone |-> IF alert = "none" THEN zone ELSE s.last_zone,
             last_ts |-> IF alert = "none" THEN ts ELSE s.last_ts,
             last_alert_low  |-> IF alert = "oversold" THEN now_t
                                 ELSE s.last_alert_low,
             last_alert_high |-> IF alert = "overbought" THEN now_t
                                 ELSE s.last_alert_high]]

\* Lines 134-165 for one timeframe record s and one fetched sample (rsi, ts)
\* with now_t = time.time(): the alert decided and the record afterwards.
Decide(s, rsi, ts, now_t) ==
    LET zone == classify_zone(rsi)
        alert == alert_kind(s, zone, ts, now_t)
    IN  [alert |-> alert,
         tf_state |->
            [last_zone |-> zone,
             last_ts |-> ts,
             last_alert_low  |-> IF alert = "oversold" THEN now_t
                                 ELSE s.last_alert_low,
             last_alert_high |-> IF alert = "overbought" THEN now_t
                                 ELSE s.last_alert_high]]

\* send_telegram without the test of line 43: the post is always attempted.
SendOutcomes_NoDryRun(c) == {"posted", "error"}

\* send_telegram: the ways a call can end under configuration c.
SendOutcomes(c) ==
    IF ~c.BOT_TOKEN \/ ~c.CHAT_ID THEN {"disabled"} ELSE {"posted", "error"}

\* Every (exchange id, symbol) pair of the providers.
Candidates ==
    UNION { { <<Providers[p][1], Providers[p][2][c]>> :
                c \in 1 .. Len(Providers[p][2]) } :
            p \in 1 .. Len(Providers) }

\* The ways a call of pick_working_market can end: `return ex, sym` (line 77)
\* for a pair of the candidates, or the RuntimeError of line 83.
NoMarket == <<>>
PickResults == Candidates \cup {NoMarket}

----------------------------------------------------------------------------
(* main(), one action per step of the run loop.                            *)

\* pick_working_market is not running.
SelIdle == [pc |-> "idle", p |-> 0, c |-> 0, last_err |-> <<>>, result |-> <<>>,
            carried |-> <<>>]

TfSet == {TIMEFRAMES[i] : i \in 1 .. Len(TIMEFRAMES)}

\* `last` records the step just taken: its kind, how its send_telegram call
\* ended ("none" without a call), and for a fetched sample the timeframe and
\* the alert decided.
Step(kind, tf, alert, sent) ==
    [kind |-> kind, tf |-> tf, alert |-> alert, sent |-> sent]
Quiet(kind, sent) == Step(kind, "", "none", sent)

Init ==
    /\ pc = "start"
    /\ tfi = 1
    /\ clock = StartEpoch
    /\ start = 0
    /\ market = NoMarket
    /\ state = [tf \in {} |-> InitTfState]
    /\ cfg \in [BOT_TOKEN : BOOLEAN, CHAT_ID : BOOLEAN, STARTUP_DM : BOOLEAN]
    /\ last = Quiet("none", "none")
    /\ fetched = [tf \in TfSet |-> <<>>]
    /\ hist = <<>>
    /\ sel = SelIdle
    /\ trace = <<>>

\* The for loop of line 118 moves to the next timeframe, or the sweep ends.
NextTf ==
    IF tfi < Len(TIMEFRAMES)
    THEN /\ tfi' = tfi + 1
         /\ pc' = "sweep"
    ELSE /\ tfi' = 1
         /\ pc' = "sleep"

\* Lines 99-114 when the initial selection returns a market.
StartOk ==
    /\ pc = "start"
    /\ \E d \in Delays, m \in Candidates, o \in SendOutcomes(cfg) :
        /\ start' = clock
        /\ clock' = clock + d
        /\ market' = m
        /\ last' = Quiet("live", IF cfg.STARTUP_DM THEN o ELSE "none")
    /\ state' = [tf \in TfSet |-> InitTfState]
    /\ pc' = "loop"
    /\ UNCHANGED <<tfi, cfg, fetched, hist, sel, trace>>

\* Lines 99-102 when the initial selection raises: main() ends with the error.
StartFail ==
    /\ pc = "start"
    /\ \E d \in Delays, o \in SendOutcomes(cfg) :
        /\ start' = clock
        /\ clock' = clock + d
        /\ last' = Quiet("no_market", IF cfg.STARTUP_DM THEN o ELSE "none")
    /\ pc' = "crashed"
    /\ UNCHANGED <<tfi, market, state, cfg, fetched, hist, sel, trace>>

\* Line 116 as `while True`: the budget is never read.
LoopTest_NoBudget ==
    /\ pc = "loop"
    /\ pc' = "sweep"
    /\ tfi' = 1
    /\ UNCHANGED <<clock, start, market, state, cfg, last, fetched, hist, sel, trace>>

\* Line 116: the budget test at the top of the while loop.
LoopTest ==
    /\ pc = "loop"
    /\ pc' = IF (clock - start) < RUN_SECONDS THEN "sweep" ELSE "done"
    /\ tfi' = 1
    /\ UNCHANGED <<clock, start, market, state, cfg, last, fetched, hist, sel, trace>>

\* Lines 120, 134-165, with lines 151 and 158 moved after a send that was
\* delivered: an alert that was not posted leaves its timer alone.
FetchOk_TimerOnDelivery ==
    /\ pc = "sweep"
    /\ \E d \in Delays, rsi \in RunSamples, ts \in TsVals, o \in SendOutcomes(cfg) :
        LET tf == TIMEFRAMES[tfi]
            now_t == clock + d
            r == Decide(state[tf], rsi, ts, now_t)
            kept == [r.tf_state EXCEPT !.last_alert_low = state[tf].last_alert_low,
                                       !.last_alert_high = state[tf].last_alert_high]
        IN  /\ clock' = now_t
            /\ state' = [state EXCEPT ![tf] = IF o = "posted" THEN r.tf_state ELSE kept]
            /\ last' = Step("sample", tf, r.alert,
                            IF r.alert # "none" THEN o ELSE "none")
            /\ fetched' = [fetched EXCEPT ![tf] = <<rsi, ts>>]
    /\ NextTf
    /\ UNCHANGED <<start, market, cfg, hist, sel, trace>>

\* Lines 120, 134-165: the fetch returns (rsi, ts) after d seconds.
FetchOk ==
    /\ pc = "sweep"
    /\ \E d \in Delays, rsi \in RunSamples, ts \in TsVals, o \in SendOutcomes(cfg) :
        LET tf == TIMEFRAMES[tfi]
            now_t == clock + d
            r == Decide(state[tf], rsi, ts, now_t)
        IN  /\ clock' = now_t
            /\ state' = [state EXCEPT ![tf] = r.tf_state]
            /\ last' = Step("sample", tf, r.alert,
                            IF r.alert # "none" THEN o ELSE "none")
            /\ fetched' = [fetched EXCEPT ![tf] = <<rsi, ts>>]
    /\ NextTf
    /\ UNCHANGED <<start, market, cfg, hist, sel, trace>>

\* Lines 120, 134-165 when fetch_ohlcv returns at least one candle and fewer
\* than the RSI window needs: lines 85-89 test no length, the last RSI entry
\* is not a number, and line 89 returns (nan, ts) as it returns any sample.
FetchShort ==
    /\ pc = "sweep"
    /\ \E d \in Delays, ts \in TsVals, o \in SendOutcomes(cfg) :
        LET tf == TIMEFRAMES[tfi]
            now_t == clock + d
            r == Decide(state[tf], NaN, ts, now_t)
        IN  /\ clock' = now_t
            /\ state' = [state EXCEPT ![tf] = r.tf_state]
            /\ last' = Step("short", tf, r.alert,
                            IF r.alert # "none" THEN o ELSE "none")
            /\ fetched' = [fetched EXCEPT ![tf] = <<NaN, ts>>]
    /\ NextTf
    /\ UNCHANGED <<start, market, cfg, hist, sel, trace>>

\* Lines 121-129, with the per-run state built anew after a switch.
FetchBaseError_ResetsState ==
    /\ pc = "sweep"
    /\ \E d \in Delays, d2 \in Delays, m \in PickResults, o \in SendOutcomes(cfg) :
        /\ clock' = clock + d + 10 + d2
        /\ market' = IF m # NoMarket THEN m ELSE market
        /\ state' = IF m # NoMarket THEN [tf \in TfSet |-> InitTfState] ELSE state
        /\ last' = IF m # NoMarket THEN Quiet("switched", o)
                   ELSE Quiet("switch_failed", "none")
    /\ NextTf
    /\ UNCHANGED <<start, cfg, fetched, hist, sel, trace>>

\* Lines 121-129, without the try of lines 124-128 around the re-selection:
\* its RuntimeError leaves main().
FetchBaseError_FatalReselect ==
    /\ pc = "sweep"
    /\ \E d \in Delays, d2 \in Delays, m \in PickResults, o \in SendOutcomes(cfg) :
        /\ clock' = clock + d + 10 + d2
        /\ market' = IF m # NoMarket THEN m ELSE market
        /\ last' = IF m # NoMarket THEN Quiet("switched", o)
                   ELSE Quiet("switch_failed", "none")
        /\ IF m # NoMarket THEN NextTf ELSE pc' = "crashed" /\ tfi' = tfi
    /\ UNCHANGED <<start, state, cfg, fetched, hist, sel, trace>>

\* Lines 121-129, with the send of line 126 moved after the inner try: it
\* runs whether the re-selection found a market or not.
FetchBaseError_AlwaysNotifies ==
    /\ pc = "sweep"
    /\ \E d \in Delays, d2 \in Delays, m \in PickResults, o \in SendOutcomes(cfg) :
        /\ clock' = clock + d + 10 + d2
        /\ market' = IF m # NoMarket THEN m ELSE market
        /\ last' = IF m # NoMarket THEN Quiet("switched", o)
                   ELSE Quiet("switch_failed", o)
    /\ NextTf
    /\ UNCHANGED <<start, state, cfg, fetched, hist, sel, trace>>

\* Lines 121-129: the fetch raises ccxt.BaseError; sleep 10 s, re-select.
FetchBaseError ==
    /\ pc = "sweep"
    /\ \E d \in Delays, d2 \in Delays, m \in PickResults, o \in SendOutcomes(cfg) :
        /\ clock' = clock + d + 10 + d2
        /\ market' = IF m # NoMarket THEN m ELSE market
        /\ last' = IF m # NoMarket THEN Quiet("switched", o)
                   ELSE Quiet("switch_failed", "none")
    /\ NextTf
    /\ UNCHANGED <<start, state, cfg, fetched, hist, sel, trace>>

\* Lines 130-132: the fetch raises another Exception (the IndexError of line
\* 89 when no candle came back is one); the timeframe is skipped.
FetchOtherError ==
    /\ pc = "sweep"
    /\ \E d \in Delays : clock' = clock + d
    /\ last' = Quiet("skipped", "none")
    /\ NextTf
    /\ UNCHANGED <<start, market, state, cfg, fetched, hist, sel, trace>>

\* Line 167: the sleep between sweeps.
SweepSleep ==
    /\ pc = "sleep"
    /\ clock' = clock + (IF (clock - start) < RUN_SECONDS THEN LOOP_SLEEP_SECONDS ELSE 1)
    /\ pc' = "loop"
    /\ UNCHANGED <<tfi, start, market, state, cfg, last, fetched, hist, sel, trace>>

\* Lines 169-180 handle an exception that leaves the for loop.  Every
\* statement of the loop body that can raise an Exception sits inside a
\* handler of its own (lines 119-132, 124-128, 46-50), so none reaches them.

Next ==
    \/ StartOk
    \/ StartFail
    \/ LoopTest
    \/ FetchOk
    \/ FetchShort
    \/ FetchBaseError
    \/ FetchOtherError
    \/ SweepSleep

Spec == Init /\ [][Next]_vars

----------------------------------------------------------------------------
(* The decision engine alone: lines 134-165 applied to one timeframe's     *)
(* record, sample after sample, from the record of lines 107-114.          *)

\* The engine is followed for Horizon seconds.
Horizon == 900

Sample(pre, rsi, ts, now_t, alert) ==
    [pre |-> pre, rsi |-> rsi, ts |-> ts, now_t |-> now_t, alert |-> alert]

InitTf ==
    /\ pc = "engine"
    /\ tfi = 1
    /\ clock = StartEpoch
    /\ start = StartEpoch
    /\ market = NoMarket
    /\ state = [tf \in TfSet |-> InitTfState]
    /\ cfg = [BOT_TOKEN |-> TRUE, CHAT_ID |-> TRUE, STARTUP_DM |-> TRUE]
    /\ last = Quiet("none", "none")
    /\ fetched = [tf \in TfSet |-> <<>>]
    /\ hist = <<>>
    /\ sel = SelIdle
    /\ trace = <<>>

\* Lines 134-165 for the sample (rsi, ts), d seconds after the one before.
\* hist keeps the sample just processed.
FeedSample ==
    /\ pc = "engine"
    /\ \E d \in Delays, rsi \in RsiSamples, ts \in TsVals :
        LET tf == TIMEFRAMES[tfi]
            now_t == clock + d
            r == Decide(state[tf], rsi, ts, now_t)
        IN  /\ now_t <= StartEpoch + Horizon
            /\ clock' = now_t
            /\ state' = [state EXCEPT ![tf] = r.tf_state]
            /\ hist' = <<Sample(state[tf], rsi, ts, now_t, r.alert)>>
    /\ UNCHANGED <<pc, tfi, start, market, cfg, last, fetched, sel, trace>>

NextTfOnly == FeedSample

SpecTf == InitTf /\ [][NextTfOnly]_vars

\* The zones of the end-to-end scenario's samples, in order.
Scenario == <<"normal", "below", "below", "below">>

\* Lines 134-165 for the first Len(Scenario) samples of a run, whatever
\* their RSI; the exchange reports the candle of the sample before or the
\* one after it.  hist keeps all of them.
FeedFirst ==
    /\ pc = "engine"
    /\ Len(hist) < Len(Scenario)
    /\ \E d \in Delays, rsi \in RsiSamples, c \in {0, 1} :
        LET tf == TIMEFRAMES[tfi]
            ts == state[tf].last_ts + c
            now_t == clock + d
            r == Decide(state[tf], rsi, ts, now_t)
        IN  /\ clock' = now_t
            /\ state' = [state EXCEPT ![tf] = r.tf_state]
            /\ hist' = Append(hist, Sample(state[tf], rsi, ts, now_t, r.alert))
    /\ UNCHANGED <<pc, tfi, start, market, cfg, last, fetched, sel, trace>>

NextSeq == FeedFirst

SpecSeq == InitTf /\ [][NextSeq]_vars

----------------------------------------------------------------------------
(* pick_working_market alone (lines 59-83), one action per call it makes.  *)
(* An exception is named by the call that raised it: <<p, step, c>> for    *)
(* provider p, step "init" (make_exchange), "load" (load_markets) or       *)
(* "probe" (fetch_ohlcv of candidate c); <<>> is None.                     *)

NoErr == <<>>
Call(p, step, c, out) == [p |-> p, step |-> step, c |-> c, out |-> out]
Site(e) == <<e.p, e.step, e.c>>

InitSel ==
    /\ pc = "select"
    /\ tfi = 1
    /\ clock = StartEpoch
    /\ start = StartEpoch
    /\ market = NoMarket
    /\ state = [tf \in {} |-> InitTfState]
    /\ cfg = [BOT_TOKEN |-> TRUE, CHAT_ID |-> TRUE, STARTUP_DM |-> TRUE]
    /\ last = Quiet("none", "none")
    /\ fetched = [tf \in TfSet |-> <<>>]
    /\ hist = <<>>
    /\ sel = [SelIdle EXCEPT !.pc = "init", !.p = 1]
    /\ trace = <<>>

\* Line 61 takes the next entry of the list, or the loop ends and line 83
\* raises the RuntimeError with last_err in it.
NextProvider(le) ==
    IF sel.p < Len(Providers)
    THEN [sel EXCEPT !.pc = "init", !.p = sel.p + 1, !.c = 0, !.last_err = le]
    ELSE [sel EXCEPT !.pc = "raised", !.c = 0, !.last_err = le, !.carried = le]

\* Lines 62-67, with the except branch not keeping the exception.
SelMakeExchange_DropsError ==
    /\ pc = "select" /\ sel.pc = "init"
    /\ \E out \in {"ok", "error"} :
        /\ trace' = Append(trace, Call(sel.p, "init", 0, out))
        /\ sel' = IF out = "ok" THEN [sel EXCEPT !.pc = "load"]
                  ELSE NextProvider(sel.last_err)
    /\ UNCHANGED <<pc, tfi, clock, start, market, state, cfg, last, fetched, hist>>

\* Lines 62-67, with the `continue` of line 67 missing.
SelMakeExchange_NoContinue ==
    /\ pc = "select" /\ sel.pc = "init"
    /\ \E out \in {"ok", "error"} :
        /\ trace' = Append(trace, Call(sel.p, "init", 0, out))
        /\ sel' = IF out = "ok" THEN [sel EXCEPT !.pc = "load"]
                  ELSE [sel EXCEPT !.pc = "load", !.last_err = <<sel.p, "init", 0>>]
    /\ UNCHANGED <<pc, tfi, clock, start, market, state, cfg, last, fetched, hist>>

\* Lines 62-67: make_exchange returns, or raises and the provider is skipped.
SelMakeExchange ==
    /\ pc = "select" /\ sel.pc = "init"
    /\ \E out \in {"ok", "error"} :
        /\ trace' = Append(trace, Call(sel.p, "init", 0, out))
        /\ sel' = IF out = "ok" THEN [sel EXCEPT !.pc = "load"]
                  ELSE NextProvider(<<sel.p, "init", 0>>)
    /\ UNCHANGED <<pc, tfi, clock, start, market, state, cfg, last, fetched, hist>>

\* Lines 68-71, with a `continue` after the warning: a provider whose
\* load_markets raised is skipped.
SelLoadMarkets_SkipsProvider ==
    /\ pc = "select" /\ sel.pc = "load"
    /\ \E out \in {"ok", "error"} :
        /\ trace' = Append(trace, Call(sel.p, "load", 0, out))
        /\ sel' = IF out = "ok" THEN [sel EXCEPT !.pc = "probe", !.c = 1]
                  ELSE NextProvider(sel.last_err)
    /\ UNCHANGED <<pc, tfi, clock, start, market, state, cfg, last, fetched, hist>>

\* Lines 68-71: load_markets returns, or raises and the warning is printed;
\* the candidates are probed either way.
SelLoadMarkets ==
    /\ pc = "select" /\ sel.pc = "load"
    /\ \E out \in {"ok", "error"} :
        trace' = Append(trace, Call(sel.p, "load", 0, out))
    /\ sel' = [sel EXCEPT !.pc = "probe", !.c = 1]
    /\ UNCHANGED <<pc, tfi, clock, start, market, state, cfg, last, fetched, hist>>

\* Lines 72-82: one fetch_ohlcv probe.  It returns a candle of five or more
\* fields ("ok": line 77 returns), returns no candle ("empty") or a shorter
\* first candle ("short"): the loop goes on; or it raises ("error": last_err
\* is set and line 81 sleeps 1 s).  After a provider's last candidate line 82
\* sleeps 1 s.
SelProbe ==
    /\ pc = "select" /\ sel.pc = "probe"
    /\ \E out \in {"ok", "empty", "short", "error"} :
        LET le == IF out = "error" THEN <<sel.p, "probe", sel.c>> ELSE sel.last_err
            more == sel.c < Len(Providers[sel.p][2])
        IN  /\ trace' = Append(trace, Call(sel.p, "probe", sel.c, out))
            /\ sel' = IF out = "ok"
                      THEN [sel EXCEPT !.pc = "returned",
                                       !.result = <<Providers[sel.p][1],
                                                    Providers[sel.p][2][sel.c]>>]
                      ELSE IF more
                      THEN [sel EXCEPT !.c = sel.c + 1, !.last_err = le]
                      ELSE NextProvider(le)
            /\ clock' = IF out = "ok" THEN clock
                        ELSE clock + (IF out = "error" THEN 1 ELSE 0)
                                   + (IF more THEN 0 ELSE 1)
    /\ UNCHANGED <<pc, tfi, start, market, state, cfg, last, fetched, hist>>

NextSel ==
    \/ SelMakeExchange
    \/ SelLoadMarkets
    \/ SelProbe

SpecSel == InitSel /\ [][NextSel]_vars

\* Every way a run of pick_working_market ends is one of PickResults.
SelEndsInPickResults ==
    /\ sel.pc = "returned" => sel.result \in Candidates
    /\ sel.pc = "raised" => sel.result = NoMarket

----------------------------------------------------------------------------
(* classify_zone alone, on every RSI value 0 .. MaxRsi.                    *)

InitCls ==
    /\ pc = "classify"
    /\ tfi = 1
    /\ clock = StartEpoch
    /\ start = StartEpoch
    /\ market = NoMarket
    /\ state = [tf \in TfSet |-> InitTfState]
    /\ cfg = [BOT_TOKEN |-> TRUE, CHAT_ID |-> TRUE, STARTUP_DM |-> TRUE]
    /\ last = Quiet("none", "none")
    /\ fetched = [tf \in TfSet |-> <<>>]
    /\ hist = <<>>
    /\ sel = SelIdle
    /\ trace = <<>>

\* Line 134: zone = classify_zone(rsi); hist keeps the value and its zone.
Classify ==
    /\ pc = "classify"
    /\ \E rsi \in 0 .. MaxRsi :
        hist' = <<[rsi |-> rsi, zone |-> classify_zone(rsi)]>>
    /\ UNCHANGED <<pc, tfi, clock, start, market, state, cfg, last, fetched, sel, trace>>

NextCls == Classify

SpecCls == InitCls /\ [][NextCls]_vars

----------------------------------------------------------------------------
(* Properties of the decision engine (SpecTf): hist[1] is the sample just  *)
(* processed, hist[1].pre the timeframe's record before it, and            *)
(* state[TIMEFRAMES[1]] the record after it.                               *)

Fed == hist # <<>>
Pre == hist[1].pre
Post == state[TIMEFRAMES[1]]
FedZone == classify_zone(hist[1].rsi)
FedNewCandle == hist[1].ts # Pre.last_ts

\* C1: a sample that classifies as Below on a candle timestamp other than
\* the stored one, when the stored zone is not Below, always emits an
\* oversold alert and sets last_alert_low to the current time, whatever
\* last_alert_low was, and leaves last_alert_high alone; the same for Above
\* with last_alert_high.
C1_CrossingBypassesCooldown ==
    Fed =>
        /\ (Pre.last_zone # "below" /\ FedZone = "below" /\ FedNewCandle) =>
              /\ hist[1].alert = "oversold"
              /\ Post.last_alert_low = hist[1].now_t
              /\ Post.last_alert_high = Pre.last_alert_high
        /\ (Pre.last_zone # "above" /\ FedZone = "above" /\ FedNewCandle) =>
              /\ hist[1].alert = "overbought"
              /\ Post.last_alert_high = hist[1].now_t
              /\ Post.last_alert_low = Pre.last_alert_low

\* A crossing into Below less than 300 s after the previous oversold alert.
C1_Witness ==
    /\ Fed
    /\ Pre.last_zone # "below" /\ FedZone = "below" /\ FedNewCandle
    /\ Pre.last_alert_low > 0
    /\ hist[1].now_t - Pre.last_alert_low < 300
    /\ hist[1].alert = "oversold"

\* C2: when the stored zone is Below and a sample on another candle
\* timestamp is still Below, an oversold alert is emitted exactly when
\* now - last_alert_low >= 300; without an alert last_alert_low is unchanged;
\* either way last_zone and last_ts become the sample's.  The same for Above.
C2_StayingObeysCooldown ==
    Fed =>
        /\ (Pre.last_zone = "below" /\ FedZone = "below" /\ FedNewCandle) =>
              /\ hist[1].alert = "oversold" <=> hist[1].now_t - Pre.last_alert_low >= 300
              /\ hist[1].alert \in {"oversold", "none"}
              /\ hist[1].alert = "none" => Post.last_alert_low = Pre.last_alert_low
              /\ Post.last_zone = "below" /\ Post.last_ts = hist[1].ts
        /\ (Pre.last_zone = "above" /\ FedZone = "above" /\ FedNewCandle) =>
              /\ hist[1].alert = "overbought" <=> hist[1].now_t - Pre.last_alert_high >= 300
              /\ hist[1].alert \in {"overbought", "none"}
              /\ hist[1].alert = "none" => Post.last_alert_high = Pre.last_alert_high
              /\ Post.last_zone = "above" /\ Post.last_ts = hist[1].ts

\* Still Below on a new candle inside the cooldown: no alert, candle stored.
C2_Witness ==
    /\ Fed
    /\ Pre.last_zone = "below" /\ FedZone = "below" /\ FedNewCandle
    /\ hist[1].now_t - Pre.last_alert_low < 300
    /\ hist[1].alert = "none"
    /\ Post.last_ts = hist[1].ts /\ Post.last_ts # Pre.last_ts

\* C3: a sample on the stored candle timestamp is never a crossing: when
\* the stored zone is not Below and the sample classifies as Below, an
\* oversold alert is emitted exactly when now - last_alert_low >= 300.  The
\* same for Above.
C3_SameCandleIsNoCrossing ==
    Fed =>
        /\ (Pre.last_zone # "below" /\ FedZone = "below" /\ ~FedNewCandle) =>
              /\ hist[1].alert = "oversold" <=> hist[1].now_t - Pre.last_alert_low >= 300
              /\ hist[1].alert \in {"oversold", "none"}
        /\ (Pre.last_zone # "above" /\ FedZone = "above" /\ ~FedNewCandle) =>
              /\ hist[1].alert = "overbought" <=> hist[1].now_t - Pre.last_alert_high >= 300
              /\ hist[1].alert \in {"overbought", "none"}

\* The zone label changes to Below on the stored candle inside the cooldown,
\* and no alert is emitted.
C3_Witness ==
    /\ Fed
    /\ Pre.last_zone # "below" /\ FedZone = "below" /\ ~FedNewCandle
    /\ hist[1].now_t - Pre.last_alert_low < 300
    /\ hist[1].alert = "none"

\* C4: a sample that classifies as Normal emits no alert and leaves both
\* alert timers unchanged, whatever the stored zone, the candle timestamp
\* and the cooldowns.
C4_NoAlertForNormal ==
    (Fed /\ FedZone = "normal") =>
        /\ hist[1].alert = "none"
        /\ Post.last_alert_low = Pre.last_alert_low
        /\ Post.last_alert_high = Pre.last_alert_high

\* A return from Above to Normal on a new candle with both cooldowns expired.
C4_Witness ==
    /\ Fed
    /\ FedZone = "normal" /\ Pre.last_zone = "above" /\ FedNewCandle
    /\ hist[1].now_t - Pre.last_alert_high >= 300
    /\ hist[1].now_t - Pre.last_alert_low >= 300
    /\ Post.last_zone = "normal"

\* C5 (SpecCls): classify_zone gives Below exactly for r < 20, Above exactly
\* for r > 80 and Normal otherwise; 20 and 80 themselves are Normal.
C5_ClassifyMatchesReference ==
    Fed =>
        /\ hist[1].zone = "below" <=> hist[1].rsi < 20
        /\ hist[1].zone = "above" <=> hist[1].rsi > 80
        /\ hist[1].zone = "normal" <=> (hist[1].rsi >= 20 /\ hist[1].rsi <= 80)
        /\ hist[1].rsi \in {20, 80} => hist[1].zone = "normal"

\* The boundary value 80 has been classified, as Normal.
C5_Witness ==
    Fed /\ hist[1].rsi = 80 /\ hist[1].zone = "normal"

----------------------------------------------------------------------------
(* The end-to-end scenario (SpecSeq): hist[i] is the i-th sample fed to a  *)
(* fresh timeframe record.                                                 *)

\* The first n samples have the scenario's zones, each on a candle
\* timestamp other than the stored one, all timestamps different.
RunsScenario(n) ==
    /\ Len(hist) >= n
    /\ \A i \in 1 .. n :
        /\ classify_zone(hist[i].rsi) = Scenario[i]
        /\ hist[i].ts # hist[i].pre.last_ts
    /\ \A i, j \in 1 .. n : i # j => hist[i].ts # hist[j].ts
    /\ hist[1].pre = InitTfState

ScenarioHead ==
    /\ RunsScenario(1) => hist[1].alert = "none"
    /\ RunsScenario(2) => hist[2].alert = "oversold"
    /\ RunsScenario(3) =>
          (hist[3].now_t - hist[2].now_t < 300 => hist[3].alert = "none")

\* C7 as stated: Normal, Below, Below, Below on four new candles gives no
\* alert on sample 1, an oversold alert on sample 2, none on sample 3 when it
\* is processed less than 300 s after sample 2's alert, and an oversold alert
\* on sample 4 exactly when 300 s or more have passed since sample 2's alert.
C7_AsStated ==
    /\ ScenarioHead
    /\ RunsScenario(4) =>
          (hist[4].alert = "oversold" <=> hist[4].now_t - hist[2].now_t >= 300)

\* C7 amended: as stated, except that sample 4 is measured against sample
\* 2's alert only when sample 3 emitted no alert; when sample 3 did alert
\* (300 s or more after sample 2), sample 4 alerts exactly when 300 s or more
\* have passed since sample 3's alert.
C7_ScenarioAlerts ==
    /\ ScenarioHead
    /\ RunsScenario(4) =>
          /\ hist[4].alert \in {"oversold", "none"}
          /\ hist[3].alert = "none" =>
                (hist[4].alert = "oversold" <=> hist[4].now_t - hist[2].now_t >= 300)
          /\ hist[3].alert # "none" =>
                (hist[4].alert = "oversold" <=> hist[4].now_t - hist[3].now_t >= 300)

\* The scenario ran to its fourth sample, sample 3 fell inside sample 2's
\* cooldown and sample 4 re-alerted after it.
C7_Witness ==
    /\ RunsScenario(4)
    /\ hist[2].alert = "oversold"
    /\ hist[3].alert = "none"
    /\ hist[4].alert = "oversold"

----------------------------------------------------------------------------
(* Properties of pick_working_market (SpecSel), read off trace.            *)

Calls == 1 .. Len(trace)
IsProbe(k) == trace[k].step = "probe"
CandsOf(p) == 1 .. Len(Providers[p][2])
\* Candidate c of provider q was probed, without success, before call k.
FailedBefore(k, q, c) ==
    \E j \in 1 .. (k - 1) :
        /\ trace[j].p = q /\ trace[j].step = "probe" /\ trace[j].c = c
        /\ trace[j].out # "ok"
InitOk(q) == \E j \in Calls : trace[j] = Call(q, "init", 0, "ok")
InitFailed(q) == \E j \in Calls : trace[j] = Call(q, "init", 0, "error")

\* What C9 says of every probe but its sentence on earlier providers: the
\* provider's earlier candidates were probed and failed; nothing is called
\* after a success; the pair returned is the one whose probe succeeded.
PriorityOrder ==
    /\ \A k \in Calls : IsProbe(k) =>
          \A c \in 1 .. (trace[k].c - 1) : FailedBefore(k, trace[k].p, c)
    /\ \A k \in Calls : (IsProbe(k) /\ trace[k].out = "ok") => k = Len(trace)
    /\ sel.pc = "returned" <=>
          (trace # <<>> /\ IsProbe(Len(trace)) /\ trace[Len(trace)].out = "ok")
    /\ sel.pc = "returned" =>
          sel.result = <<Providers[trace[Len(trace)].p][1],
                         Providers[trace[Len(trace)].p][2][trace[Len(trace)].c]>>

\* C9 as stated: the pair returned is the first in provider order, then
\* candidate order, whose probe gave a working candle; every candidate of an
\* earlier provider is probed and fails before any candidate of a later
\* provider is probed; no probe follows the first success.
C9_AsStated ==
    /\ PriorityOrder
    /\ \A k \in Calls : IsProbe(k) =>
          \A q \in 1 .. (trace[k].p - 1) : \A c \in CandsOf(q) : FailedBefore(k, q, c)

\* C9 amended: as stated, for the earlier providers whose make_exchange
\* succeeded; a provider whose make_exchange raised has no candidate probed.
C9_PriorityOrder ==
    /\ PriorityOrder
    /\ \A k \in Calls : IsProbe(k) =>
          \A q \in 1 .. (trace[k].p - 1) :
              /\ InitOk(q) => \A c \in CandsOf(q) : FailedBefore(k, q, c)
              /\ InitFailed(q) => \A j \in Calls : ~(IsProbe(j) /\ trace[j].p = q)
              /\ InitOk(q) \/ InitFailed(q)

\* The first provider's candidate failed and the second provider's second
\* candidate is returned.
C9_Witness ==
    /\ sel.pc = "returned"
    /\ sel.result = <<"okx", "BTC-USDT">>
    /\ InitOk(1)
    /\ FailedBefore(Len(trace), 1, 1)
    /\ FailedBefore(Len(trace), 2, 1)

\* Every provider either failed to initialise or had all its candidates
\* probed without success.
AllFailed ==
    \A p \in 1 .. Len(Providers) :
        \/ InitFailed(p)
        \/ \A c \in CandsOf(p) : FailedBefore(Len(trace) + 1, p, c)

\* The exception raised by the latest call, among the given steps, that
\* raised one; NoErr when none did.
Latest(S) == CHOOSE k \in S : \A j \in S : j <= k
LastRaised(steps) ==
    LET S == {k \in Calls : trace[k].out = "error" /\ trace[k].step \in steps}
    IN  IF S = {} THEN NoErr ELSE Site(trace[Latest(S)])

\* C10 as stated: when every provider and candidate fails, the selection
\* fails with an error that carries the last exception any of its calls
\* raised (make_exchange, load_markets or a probe).
C10_AsStated ==
    AllFailed =>
        /\ sel.pc = "raised"
        /\ sel.carried = LastRaised({"init", "load", "probe"})

\* C10 amended: when every provider and candidate fails, the selection fails
\* with an error that carries the last exception raised by make_exchange or
\* by a probe (None when neither raised); an exception of load_markets is
\* printed and not kept.
C10_ExhaustionCarriesLastError ==
    /\ AllFailed =>
          /\ sel.pc = "raised"
          /\ sel.result = NoMarket
          /\ sel.carried = LastRaised({"init", "probe"})
    /\ sel.pc = "raised" => AllFailed

\* Every candidate failed, a make_exchange or probe exception is carried, and
\* a later load_markets exception is not.
C10_Witness ==
    /\ AllFailed
    /\ sel.pc = "raised"
    /\ sel.carried # NoErr
    /\ LastRaised({"load"}) # NoErr
    /\ LastRaised({"init", "load", "probe"}) = LastRaised({"load"})

----------------------------------------------------------------------------
(* Properties of the run loop (Spec).                                      *)

\* C6: whenever a timeframe's fetch succeeded, its stored zone is the
\* classification of the RSI fetched and its last_ts the timestamp fetched,
\* whether an alert fired, was held back by the cooldown, or its send
\* failed; so between cycles the stored zone is that of the most recent
\* sample fetched, and Normal before any.
C6_ZoneFollowsLastSample ==
    \A tf \in DOMAIN state :
        IF fetched[tf] = <<>>
        THEN state[tf].last_zone = "normal" /\ state[tf].last_ts = 0
        ELSE /\ state[tf].last_zone = classify_zone(fetched[tf][1])
             /\ state[tf].last_ts = fetched[tf][2]

\* A sample whose alert could not be sent has just been stored.
C6_Witness ==
    /\ last.kind = "sample" /\ last.alert = "oversold" /\ last.sent = "error"
    /\ fetched[last.tf] # <<>>
    /\ state[last.tf].last_zone = "below"
    /\ state[last.tf].last_ts = fetched[last.tf][2]
    /\ state[last.tf].last_ts # 0

\* C8: a re-selection during the run, whether it finds a market or not,
\* leaves every timeframe's last_zone, last_ts, last_alert_low and
\* last_alert_high as they were; a failed one leaves the market too.
C8_FailoverKeepsState ==
    [][(pc = "sweep" /\ last'.kind \in {"switched", "switch_failed"}) =>
          /\ state' = state
          /\ last'.kind = "switch_failed" => market' = market]_vars

\* A switch of market has just happened while a timeframe is in the Below
\* zone with its oversold timer set.
C8_Witness ==
    /\ last.kind = "switched"
    /\ \E tf \in DOMAIN state :
        /\ state[tf].last_zone = "below"
        /\ state[tf].last_alert_low > 0
        /\ state[tf].last_ts # 0

----------------------------------------------------------------------------
(* Provider set-up failures in pick_working_market (SpecSel).              *)

LoadFailed(q) == \E j \in Calls : trace[j] = Call(q, "load", 0, "error")
Probed(q) == \E j \in Calls : IsProbe(j) /\ trace[j].p = q
\* The selection goes on after call k: the next call exists or is due, or
\* the list of providers is exhausted and every one of them has failed.
GoesOnAfter(k) ==
    \/ k < Len(trace)
    \/ sel.pc \in {"init", "load", "probe"}
    \/ sel.pc = "raised" /\ sel.p = Len(Providers) /\ AllFailed

\* C11 as stated: a provider whose make_exchange or whose load_markets
\* raised has none of its candidates probed, the next call is the next
\* provider's make_exchange, and the selection is not aborted.
C11_AsStated ==
    \A k \in Calls :
        (trace[k].out = "error" /\ trace[k].step \in {"init", "load"}) =>
            /\ ~Probed(trace[k].p)
            /\ k < Len(trace) => trace[k + 1].step = "init" /\ trace[k + 1].p = trace[k].p + 1
            /\ GoesOnAfter(k)

\* C11 amended: a provider whose make_exchange raised has none of its
\* candidates probed and the next call is the next provider's make_exchange;
\* after a load_markets that raised, the next call is the probe of that
\* provider's first candidate; neither failure aborts the selection.
C11_SetupFailure ==
    \A k \in Calls :
        /\ (trace[k].out = "error" /\ trace[k].step = "init") =>
              /\ ~Probed(trace[k].p)
              /\ k < Len(trace) => trace[k + 1].step = "init" /\ trace[k + 1].p = trace[k].p + 1
              /\ k = Len(trace) =>
                    \/ sel.pc = "init" /\ sel.p = trace[k].p + 1
                    \/ sel.pc = "raised" /\ trace[k].p = Len(Providers)
              /\ GoesOnAfter(k)
        /\ (trace[k].out = "error" /\ trace[k].step = "load") =>
              /\ k < Len(trace) => trace[k + 1] \in
                    {Call(trace[k].p, "probe", 1, out) : out \in {"ok", "empty", "short", "error"}}
              /\ k = Len(trace) => sel.pc = "probe" /\ sel.p = trace[k].p /\ sel.c = 1
              /\ GoesOnAfter(k)

\* The first provider failed to initialise and was skipped; the second one's
\* load_markets raised and its first candidate was returned all the same.
C11_Witness ==
    /\ InitFailed(1) /\ ~Probed(1)
    /\ LoadFailed(2)
    /\ sel.pc = "returned"
    /\ sel.result = <<"okx", "BTC/USDT">>

\* C12: main() ends with an unhandled error exactly when the selection of
\* line 102 raises, and then no sweep has run: no sample was fetched and no
\* alert decided.  Once a market is bound the run never ends that way,
\* whatever fetches, re-selections and sends fail, and it ends only when the
\* budget was found used up.
C12_OnlyInitialSelectionIsFatal ==
    /\ pc = "crashed" <=> last.kind = "no_market"
    /\ pc = "crashed" =>
          /\ market = NoMarket
          /\ DOMAIN state = {}
          /\ \A tf \in TfSet : fetched[tf] = <<>>
          /\ last.alert = "none"
    /\ market # NoMarket => pc \in {"loop", "sweep", "sleep", "done"}
    /\ pc = "done" => market # NoMarket /\ (clock - start) >= RUN_SECONDS

\* The run ended on its budget although the last thing it did was a
\* re-selection that found no market.
C12_Witness ==
    /\ pc = "done"
    /\ last.kind = "switch_failed"
    /\ (clock - start) >= RUN_SECONDS

\* C13 as stated: a fetch that raises, or that returns fewer candles than
\* the RSI needs, skips the timeframe: no zone is stored for it, its record
\* is unchanged and no alert is decided.
C13_AsStated ==
    [][(pc = "sweep" /\ last'.kind \in {"switched", "switch_failed", "skipped", "short"}) =>
          /\ state' = state
          /\ last'.alert = "none"]_vars

\* C14: with BOT_TOKEN or CHAT_ID unset every send_telegram call only prints
\* (no post is attempted); with both set a call ends with the post made or
\* with its exception caught; either way the call returns and the caller
\* goes on: no send ends the run.
C14_DryRunNotifier ==
    /\ (~cfg.BOT_TOKEN \/ ~cfg.CHAT_ID) => last.sent \in {"none", "disabled"}
    /\ (cfg.BOT_TOKEN /\ cfg.CHAT_ID) => last.sent \in {"none", "posted", "error"}
    /\ (last.sent \in {"disabled", "error"} /\ last.kind # "no_market") =>
          pc \in {"loop", "sweep", "sleep", "done"}
    /\ (last.sent \in {"disabled", "error"} /\ last.kind \in {"sample", "short"}) =>
          /\ last.alert # "none"
          /\ state[last.tf].last_ts = fetched[last.tf][2]

\* An overbought alert was decided with the token unset and the chat id set:
\* it was only printed, and the run went on.
C14_Witness ==
    /\ ~cfg.BOT_TOKEN /\ cfg.CHAT_ID
    /\ last.kind = "sample" /\ last.alert = "overbought"
    /\ last.sent = "disabled"
    /\ pc = "sleep"

----------------------------------------------------------------------------
(* Termination of the run loop.  time.time() advances and every fetch,     *)
(* selection, send and sleep returns: a step that is possible is           *)
(* eventually taken.                                                       *)

SpecFair == Spec /\ WF_vars(Next)

Elapsed == clock - start

----------------------------------------------------------------------------
(* Properties of sequences of samples (SpecSeq): hist[i] is the i-th sample *)
(* the engine processed, with the record before it.                         *)

Samples == 1 .. Len(hist)
ZoneAt(i) == classify_zone(hist[i].rsi)
Apart(i, j) == hist[j].now_t - hist[i].now_t

SideZone(alert) == IF alert = "oversold" THEN "below" ELSE "above"
LastFed == hist[Len(hist)]

\* C18 as stated: the engine allows a second alert for the same side on the
\* very next sample, less than 300 s after an alert: in a state where the
\* last sample processed alerted, such a step is possible.
C18_AsStated ==
    (hist # <<>> /\ Len(hist) < Len(Scenario) /\ LastFed.alert # "none") =>
        ENABLED (/\ FeedFirst
                 /\ hist'[Len(hist')].alert = LastFed.alert
                 /\ hist'[Len(hist')].now_t - LastFed.now_t < 300)

\* C18 amended: two alerts for the same side on successive samples are at
\* least 300 s apart; two alerts for the same side less than 300 s apart have
\* between them a sample outside that side's zone, and the second is on a new
\* candle timestamp.
C18_NoDoubleOnNextSample ==
    \A i, j \in Samples :
        (i < j /\ hist[i].alert # "none" /\ hist[j].alert = hist[i].alert) =>
            /\ j = i + 1 => Apart(i, j) >= 300
            /\ Apart(i, j) < 300 =>
                  /\ \E k \in (i + 1) .. (j - 1) : ZoneAt(k) # SideZone(hist[i].alert)
                  /\ hist[j].ts # hist[j].pre.last_ts

\* Two oversold alerts less than 300 s apart, with a Normal sample between
\* them and the second on a new candle.
C18_Witness ==
    /\ Len(hist) >= 3
    /\ hist[1].alert = "oversold"
    /\ hist[2].alert = "none" /\ ZoneAt(2) = "normal"
    /\ hist[3].alert = "oversold"
    /\ Apart(1, 3) < 300

----------------------------------------------------------------------------
(* Alerts and their timers in the run loop (Spec).                         *)

\* C19: every alert decided sets its side's timer to the time of the
\* decision, however its send_telegram call ends (posted, exception caught,
\* or only printed because the credentials are unset); and a sample that
\* stays in the zone less than 300 s after that time decides no alert and
\* sends nothing, so the message that was lost is not sent again.
C19_LostAlertConsumesCooldown ==
    [][(pc = "sweep" /\ last'.kind = "sample") =>
          LET pre == state[last'.tf]
              post == state'[last'.tf]
          IN  /\ last'.alert = "oversold" =>
                    /\ last'.sent \in SendOutcomes(cfg)
                    /\ post.last_alert_low = clock'
              /\ last'.alert = "overbought" =>
                    /\ last'.sent \in SendOutcomes(cfg)
                    /\ post.last_alert_high = clock'
              /\ (pre.last_zone = "below" /\ post.last_zone = "below"
                      /\ clock' - pre.last_alert_low < 300) =>
                    last'.alert = "none" /\ last'.sent = "none"
              /\ (pre.last_zone = "above" /\ post.last_zone = "above"
                      /\ clock' - pre.last_alert_high < 300) =>
                    last'.alert = "none" /\ last'.sent = "none"]_vars

\* With the chat id unset every alert is only printed; a later sample still
\* Below, less than 300 s after the oversold alert, has decided no alert.
C19_Witness ==
    /\ cfg.BOT_TOKEN /\ ~cfg.CHAT_ID
    /\ last.kind = "sample" /\ last.alert = "none" /\ last.sent = "none"
    /\ fetched[last.tf][1] < LOW_THRESH
    /\ state[last.tf].last_alert_low > 0
    /\ clock - state[last.tf].last_alert_low < 300

----------------------------------------------------------------------------
(* The first extreme sample of a run (SpecSeq).                            *)

\* Sample i is the first of the run that is Below or Above.
FirstExtreme(i) ==
    /\ hist[1].pre = InitTfState
    /\ ZoneAt(i) # "normal"
    /\ \A j \in 1 .. (i - 1) : ZoneAt(j) = "normal"

\* C20 as stated: the first sample of a run that is Below or Above alerts
\* whatever its candle timestamp, and both the crossing test and the
\* cooldown test pass for it.
C20_AsStated ==
    \A i \in Samples : FirstExtreme(i) =>
        /\ ZoneAt(i) = "below" =>
              /\ hist[i].alert = "oversold"
              /\ crossed_below(hist[i].pre, "below", hist[i].ts)
              /\ can_low(hist[i].pre, hist[i].now_t)
        /\ ZoneAt(i) = "above" =>
              /\ hist[i].alert = "overbought"
              /\ crossed_above(hist[i].pre, "above", hist[i].ts)
              /\ can_high(hist[i].pre, hist[i].now_t)

\* C20 amended: the first sample of a run that is Below or Above alerts
\* whatever its candle timestamp, because the cooldown test against the
\* timer's initial 0 passes; the crossing test passes as well exactly when
\* the candle timestamp is not the stored one.
C20_FirstExtremeAlerts ==
    \A i \in Samples : FirstExtreme(i) =>
        /\ hist[i].pre.last_alert_low = 0 /\ hist[i].pre.last_alert_high = 0
        /\ ZoneAt(i) = "below" =>
              /\ hist[i].alert = "oversold"
              /\ can_low(hist[i].pre, hist[i].now_t)
              /\ crossed_below(hist[i].pre, "below", hist[i].ts)
                    <=> hist[i].ts # hist[i].pre.last_ts
              /\ i = Len(hist) => Post.last_alert_low = hist[i].now_t
        /\ ZoneAt(i) = "above" =>
              /\ hist[i].alert = "overbought"
              /\ can_high(hist[i].pre, hist[i].now_t)
              /\ crossed_above(hist[i].pre, "above", hist[i].ts)
                    <=> hist[i].ts # hist[i].pre.last_ts
              /\ i = Len(hist) => Post.last_alert_high = hist[i].now_t

\* The first sample of the run is Below with candle timestamp 0, the stored
\* one: no crossing, and the oversold alert is emitted.
C20_Witness ==
    /\ Len(hist) = 1
    /\ hist[1].pre = InitTfState
    /\ ZoneAt(1) = "below" /\ hist[1].ts = 0
    /\ ~crossed_below(hist[1].pre, "below", hist[1].ts)
    /\ hist[1].alert = "oversold"
    /\ Post.last_alert_low = hist[1].now_t

====
